---- MODULE Spec2Model ----
(***************************************************************************)
(* RealtimeLambdaSubscriber (components/aws/realtime-lambda-subscriber.ts) *)
(* as a state machine: the synchronous declaration pass of its constructor *)
(* (super, output(args.iot), normalizeFilter, createFunction, createRule,  *)
(* createPermission, the three field assignments), the `nodes` getter, and *)
(* the provisioning engine that later provisions the declared children in  *)
(* an order allowed by the recorded dependency sets.                       *)
(*                                                                         *)
(* A DeferredValue (Output<T>) is a record [v, deps, known]: v its         *)
(* eventual value, deps the identities of the resources it depends on,     *)
(* known whether it is already resolved when the declaration pass runs.    *)
(* A draft holds every field in that lifted form.                          *)
(***************************************************************************)
EXTENDS Naturals, Sequences, FiniteSets, TLC

VARIABLES args, pc, error, resources, declOrder,
          iot, filter, fn, rule, permission,
          this_fn, this_permission, this_rule,
          status, cause, attempts

vars == <<args, pc, error, resources, declOrder, iot, filter, fn, rule,
          permission, this_fn, this_permission, this_rule, status, cause,
          attempts>>

locals == <<iot, filter, fn, rule, permission>>
fields == <<this_fn, this_permission, this_rule>>
engine == <<status, cause, attempts>>

---------------------------------------------------------------------------
(* Bounds and input universes *)

MaxExt == 2

ExtResources == {"ext" \o ToString(i) : i \in 1..MaxExt}

Names == {"sub", "Orders"}

Root == "root"

Unset == "unset"

Undefined == [undefined |-> TRUE]

Plain(x) == [isOutput |-> FALSE, v |-> x]

Out(x, d, k) == [isOutput |-> TRUE, v |-> x, deps |-> d, known |-> k]

FilterInputs ==
    {Undefined, Plain("devices/+/status"), Plain("orders/#")}
        \cup {Out("devices/+/status", {e}, k) : e \in ExtResources, k \in BOOLEAN}

IotInputs ==
    {Plain([name |-> "rt"])}
        \cup {Out([name |-> "rt"], {e}, FALSE) : e \in ExtResources}

SubscriberInputs ==
    {Undefined,
     Plain([isString |-> TRUE, handler |-> "handler.entry", timeout |-> ""]),
     Plain([isString |-> FALSE, handler |-> "src/sub.main", timeout |-> "30 seconds"]),
     Out([isString |-> TRUE, handler |-> "handler.entry", timeout |-> ""],
         {"ext1"}, FALSE)}

Hooks == {"absent", "identity", "overwriteAll", "deleteAll", "cosmetic"}

TransformInputs ==
    [function : {"absent", "overwriteAll"},
     topicRule : Hooks,
     permission : {"absent", "overwriteAll"}]

---------------------------------------------------------------------------
(* DeferredValue and combinators *)

lift(x) == [v |-> x, deps |-> {}, known |-> TRUE]

output(x) ==
    IF x.isOutput THEN [v |-> x.v, deps |-> x.deps, known |-> x.known]
    ELSE lift(x.v)

project(dv, field) == [v |-> dv.v[field], deps |-> dv.deps, known |-> dv.known]

RECURSIVE JoinValues(_)
JoinValues(parts) ==
    IF parts = <<>> THEN ""
    ELSE Head(parts).v \o JoinValues(Tail(parts))

interpolate(parts) ==
    [v |-> JoinValues(parts),
     deps |-> UNION {parts[i].deps : i \in DOMAIN parts},
     known |-> \A i \in DOMAIN parts : parts[i].known]

NodeOutput(id, attr) == [v |-> attr \o ":" \o id, deps |-> {id}, known |-> FALSE]

---------------------------------------------------------------------------
(* Transform hooks *)

EmptyDraft == [f \in {} |-> lift("")]

EvilValue(f) ==
    IF f = "enabled" THEN lift(FALSE)
    ELSE IF f = "lambdas" THEN lift(<<[functionArn |-> "arn:evil"]>>)
    ELSE lift("evil")

CosmeticDescription == [v |-> "custom", deps |-> {"ext1"}, known |-> FALSE]

ApplyHook(hook, draft) ==
    CASE hook = "identity" -> draft
      [] hook = "overwriteAll" -> [f \in DOMAIN draft |-> EvilValue(f)]
      [] hook = "deleteAll" -> EmptyDraft
      [] hook = "cosmetic" ->
            [f \in DOMAIN draft \cup {"description"} |->
                IF f = "description" THEN CosmeticDescription
                ELSE IF f = "enabled" THEN lift(FALSE)
                ELSE draft[f]]

(* The fields the composite marks as owned. createRule hands transform the *)
(* hook and the defaults only and re-asserts nothing on its result; no    *)
(* other child's draft reaches transform with a caller's hook.            *)
OwnedFields == {}

transform(hook, defaults) ==
    IF hook = "absent" THEN defaults
    ELSE LET candidate == ApplyHook(hook, defaults)
             owned == OwnedFields \cap DOMAIN defaults
         IN [f \in DOMAIN candidate \cup owned |->
                IF f \in owned THEN defaults[f] ELSE candidate[f]]

---------------------------------------------------------------------------
(* Resource declaration *)

DraftDeps(draft) == UNION {draft[f].deps : f \in DOMAIN draft}

declare(id, type, draft, explicitDeps, parent) ==
    [id |-> id, type |-> type, parent |-> parent, draft |-> draft,
     dependsOn |-> DraftDeps(draft) \cup explicitDeps]

self == args.name

ValidationError(definition) ==
    IF definition = Undefined THEN "subscriber" ELSE ""

Function_fromDefinition(name, definition, override, argsTransform, opts) ==
    LET def == output(definition)
        base == IF def.v.isString
                THEN [handler |-> [v |-> def.v.handler, deps |-> def.deps, known |-> def.known]]
                ELSE [handler |-> [v |-> def.v.handler, deps |-> def.deps, known |-> def.known],
                      timeout |-> [v |-> def.v.timeout, deps |-> def.deps, known |-> def.known]]
    IN declare(name, "sst:aws:Function",
               transform(argsTransform, override @@ base), {}, opts.parent)

TopicRule(name, draft, opts) ==
    declare(name, "aws:iot/topicRule:TopicRule", draft, {}, opts.parent)

Permission(name, draft, opts) ==
    declare(name, "aws:lambda/permission:Permission", draft, {}, opts.parent)

---------------------------------------------------------------------------
(* The constructor's local functions *)

normalizeFilter_EmptyDefault ==
    output(IF args.filter = Undefined THEN Plain("") ELSE args.filter)

normalizeFilter ==
    output(IF args.filter = Undefined THEN Plain("#") ELSE args.filter)

functionDefaults_PlainIotName ==
    [description |->
        interpolate(<<lift("Subscribed to "), lift(iot.v.name),
                      lift(" on "), filter>>)]

functionDefaults ==
    [description |->
        interpolate(<<lift("Subscribed to "), project(iot, "name"),
                      lift(" on "), filter>>)]

createFunction ==
    Function_fromDefinition(args.name \o "Handler", args.subscriber,
                            functionDefaults, "absent", [parent |-> self])

ruleDefaults_LiteralLinkage ==
    [sqlVersion |-> lift("2016-03-23"),
     sql |-> lift("SELECT * FROM '" \o filter.v \o "'"),
     enabled |-> lift(TRUE),
     lambdas |-> lift(<<[functionArn |-> "arn:" \o fn]>>)]

ruleDefaults ==
    [sqlVersion |-> lift("2016-03-23"),
     sql |-> interpolate(<<lift("SELECT * FROM '"), filter, lift("'")>>),
     enabled |-> lift(TRUE),
     lambdas |-> LET arn == NodeOutput(fn, "arn")
                 IN [v |-> <<[functionArn |-> arn.v]>>, deps |-> arn.deps,
                     known |-> arn.known]]

createRule ==
    TopicRule(args.name \o "Rule",
              transform(args.transform.topicRule, ruleDefaults),
              [parent |-> self])

permissionDefaults_LiteralSource ==
    [action |-> lift("lambda:InvokeFunction"),
     function |-> NodeOutput(fn, "name"),
     principal |-> lift("iot.amazonaws.com"),
     sourceArn |-> lift("arn:" \o rule)]

permissionDefaults ==
    [action |-> lift("lambda:InvokeFunction"),
     function |-> NodeOutput(fn, "name"),
     principal |-> lift("iot.amazonaws.com"),
     sourceArn |-> NodeOutput(rule, "arn")]

createPermission_NoParent ==
    Permission(args.name \o "Permission", permissionDefaults, [parent |-> Root])

createPermission_Transformed ==
    Permission(args.name \o "Permission",
               transform(args.transform.permission, permissionDefaults),
               [parent |-> self])

createPermission ==
    Permission(args.name \o "Permission", permissionDefaults, [parent |-> self])

nodes_Swapped ==
    [function |-> this_fn, permission |-> this_rule, rule |-> this_permission]

nodes == [function |-> this_fn, permission |-> this_permission, rule |-> this_rule]

---------------------------------------------------------------------------
(* State machine *)

NoResources == [id \in {} |-> EmptyDraft]

Children == {id \in DOMAIN resources : resources[id].parent = self}

Init ==
    /\ args \in [name : Names, iot : IotInputs, filter : FilterInputs,
                 subscriber : SubscriberInputs, transform : TransformInputs]
    /\ pc = "new"
    /\ error = ""
    /\ resources = NoResources
    /\ declOrder = <<>>
    /\ iot = Unset /\ filter = Unset /\ fn = Unset /\ rule = Unset
    /\ permission = Unset
    /\ this_fn = Unset /\ this_permission = Unset /\ this_rule = Unset
    /\ status = NoResources
    /\ cause = NoResources
    /\ attempts = NoResources

Register(node) ==
    /\ resources' = (node.id :> node) @@ resources
    /\ declOrder' = Append(declOrder, node.id)

RegisterChild(node) ==
    /\ Register(node)
    /\ status' = (node.id :> "pending") @@ status
    /\ cause' = (node.id :> "") @@ cause
    /\ attempts' = (node.id :> 0) @@ attempts

Super ==
    /\ pc = "new"
    /\ Register(declare(args.name, "sst:aws:RealtimeLambdaSubscriber",
                        EmptyDraft, {}, Root))
    /\ pc' = "iot"
    /\ UNCHANGED <<args, error, locals, fields, engine>>

OutputIot ==
    /\ pc = "iot"
    /\ iot' = output(args.iot)
    /\ pc' = "filter"
    /\ UNCHANGED <<args, error, resources, declOrder, filter, fn, rule,
                   permission, fields, engine>>

NormalizeFilter ==
    /\ pc = "filter"
    /\ filter' = normalizeFilter
    /\ pc' = "fn"
    /\ UNCHANGED <<args, error, resources, declOrder, iot, fn, rule,
                   permission, fields, engine>>

CreateFunction ==
    /\ pc = "fn"
    /\ IF ValidationError(args.subscriber) # ""
       THEN /\ pc' = "failed"
            /\ error' = ValidationError(args.subscriber)
            /\ UNCHANGED <<resources, declOrder, fn, engine>>
       ELSE /\ RegisterChild(createFunction)
            /\ fn' = createFunction.id
            /\ pc' = "rule"
            /\ UNCHANGED error
    /\ UNCHANGED <<args, iot, filter, rule, permission, fields>>

CreateRule ==
    /\ pc = "rule"
    /\ RegisterChild(createRule)
    /\ rule' = createRule.id
    /\ pc' = "permission"
    /\ UNCHANGED <<args, error, iot, filter, fn, permission, fields>>

CreatePermission ==
    /\ pc = "permission"
    /\ RegisterChild(createPermission)
    /\ permission' = createPermission.id
    /\ pc' = "assign"
    /\ UNCHANGED <<args, error, iot, filter, fn, rule, fields>>

AssignFields ==
    /\ pc = "assign"
    /\ this_fn' = fn
    /\ this_permission' = permission
    /\ this_rule' = rule
    /\ pc' = "done"
    /\ UNCHANGED <<args, error, resources, declOrder, locals, engine>>

(* Provisioning engine: a declared child is attempted once every child it *)
(* depends on is provisioned; a failure reaches every dependent.          *)

ChildDeps(n) == resources[n].dependsOn \cap Children

Ready(n) == \A d \in ChildDeps(n) : status[d] = "provisioned"

Provision(n) ==
    /\ pc = "done"
    /\ status[n] = "pending"
    /\ Ready(n)
    /\ status' = [status EXCEPT ![n] = "provisioned"]
    /\ attempts' = [attempts EXCEPT ![n] = @ + 1]
    /\ UNCHANGED <<args, pc, error, resources, declOrder, locals, fields, cause>>

FailProvision(n) ==
    /\ pc = "done"
    /\ status[n] = "pending"
    /\ Ready(n)
    /\ status' = [status EXCEPT ![n] = "failed"]
    /\ cause' = [cause EXCEPT ![n] = n]
    /\ attempts' = [attempts EXCEPT ![n] = @ + 1]
    /\ UNCHANGED <<args, pc, error, resources, declOrder, locals, fields>>

PropagateFailure(n) ==
    /\ pc = "done"
    /\ status[n] = "pending"
    /\ \E d \in ChildDeps(n) :
          /\ status[d] = "failed"
          /\ cause' = [cause EXCEPT ![n] = cause[d]]
    /\ status' = [status EXCEPT ![n] = "failed"]
    /\ UNCHANGED <<args, pc, error, resources, declOrder, locals, fields, attempts>>

Next ==
    \/ Super
    \/ OutputIot
    \/ NormalizeFilter
    \/ CreateFunction
    \/ CreateRule
    \/ CreatePermission
    \/ AssignFields
    \/ \E n \in DOMAIN status : Provision(n)
    \/ \E n \in DOMAIN status : FailProvision(n)
    \/ \E n \in DOMAIN status : PropagateFailure(n)

Spec == Init /\ [][Next]_vars

---------------------------------------------------------------------------
(* Expected values, written from the constructor's text and its inputs *)

HandlerId == args.name \o "Handler"
RuleId == args.name \o "Rule"
PermissionId == args.name \o "Permission"

Constructed == pc = "done"

InputDeps(x) == IF x = Undefined THEN {} ELSE IF x.isOutput THEN x.deps ELSE {}

FilterPattern == IF args.filter = Undefined THEN "#" ELSE args.filter.v

HookExtraDeps == IF args.transform.topicRule = "cosmetic" THEN {"ext1"} ELSE {}

RuleDeclared == pc \in {"permission", "assign", "done"}

(* HookKeeps(f): transform.topicRule is absent or hands back field f of   *)
(* the rule's defaults as it found it.                                     *)
HookKeeps(f) ==
    \/ args.transform.topicRule = "absent"
    \/ LET candidate == ApplyHook(args.transform.topicRule, ruleDefaults)
       IN f \in DOMAIN candidate /\ candidate[f] = ruleDefaults[f]

(* C1: whatever transform.topicRule does (overwrite or delete every field), *)
(* the draft given to the topic rule keeps lambdas = [{functionArn:         *)
(* handler.arn}] and sql = SELECT * FROM '<filter>' with their dependencies.*)
C1_OwnershipInvariant ==
    RuleDeclared =>
        LET draft == resources[RuleId].draft
        IN /\ {"lambdas", "sql"} \subseteq DOMAIN draft
           /\ draft.lambdas.v = <<[functionArn |-> "arn:" \o HandlerId]>>
           /\ draft.lambdas.deps = {HandlerId}
           /\ draft.sql.v = "SELECT * FROM '" \o FilterPattern \o "'"
           /\ draft.sql.deps = InputDeps(args.filter)

(* C2: with a subscriber and no transform, exactly three children are      *)
(* declared (Handler, Rule, Permission), each with the composite as        *)
(* parent, and the rule's draft references the handler's arn while the     *)
(* permission's draft references the rule's arn.                           *)
NoTransform ==
    /\ args.transform.function = "absent"
    /\ args.transform.topicRule = "absent"
    /\ args.transform.permission = "absent"

C2_EndToEndStructure ==
    (Constructed /\ NoTransform) =>
        /\ Children = {HandlerId, RuleId, PermissionId}
        /\ Cardinality(Children) = 3
        /\ DOMAIN resources = {args.name, HandlerId, RuleId, PermissionId}
        /\ declOrder = <<args.name, HandlerId, RuleId, PermissionId>>
        /\ resources[HandlerId].type = "sst:aws:Function"
        /\ resources[RuleId].type = "aws:iot/topicRule:TopicRule"
        /\ resources[PermissionId].type = "aws:lambda/permission:Permission"
        /\ resources[RuleId].draft.lambdas.v = <<[functionArn |-> "arn:" \o HandlerId]>>
        /\ HandlerId \in resources[RuleId].dependsOn
        /\ resources[PermissionId].draft.sourceArn.v = "arn:" \o RuleId
        /\ RuleId \in resources[PermissionId].dependsOn

C2_Witness ==
    /\ Constructed
    /\ NoTransform
    /\ args.subscriber = Plain([isString |-> TRUE, handler |-> "handler.entry", timeout |-> ""])
    /\ Cardinality(DOMAIN resources) = 4

(* C3: a child whose draft references another child's output is attempted  *)
(* only after that child is provisioned (handler before rule while the     *)
(* rule's draft carries fn.arn, handler and rule before permission), and   *)
(* is declared after it.                                                   *)
References == {<<RuleId, HandlerId>>, <<PermissionId, HandlerId>>,
               <<PermissionId, RuleId>>}

Position(id) == CHOOSE i \in DOMAIN declOrder : declOrder[i] = id

Declared(id) == \E i \in DOMAIN declOrder : declOrder[i] = id

StillReferences(e) == e = <<RuleId, HandlerId>> => HookKeeps("lambdas")

C4_NoPartialGraph ==
    args.subscriber = Undefined =>
        /\ pc # "done"
        /\ pc = "failed" => (error = "subscriber" /\ DOMAIN resources = {})

C9_FixedPublicSurface ==
    /\ [](Constructed =>
            /\ DOMAIN nodes = {"function", "permission", "rule"}
            /\ nodes.function = HandlerId
            /\ resources[nodes.function].type = "sst:aws:Function"
            /\ nodes.permission = PermissionId
            /\ resources[nodes.permission].type = "aws:lambda/permission:Permission"
            /\ nodes.rule = RuleId
            /\ resources[nodes.rule].type = "aws:iot/topicRule:TopicRule")
    /\ [][Constructed => nodes' = nodes]_vars

C9_Witness ==
    /\ Constructed
    /\ args.transform.topicRule = "deleteAll"
    /\ args.filter = Undefined
    /\ status[nodes.rule] = "provisioned"

(* C10 as stated: every child's draft is the transform composition of the  *)
(* caller's hook for that child's kind with the composite's defaults.      *)
HandlerDraftWith(hook) ==
    Function_fromDefinition(HandlerId, args.subscriber, functionDefaults,
                            hook, [parent |-> args.name]).draft

C10_PerChildTransform ==
    Constructed =>
        /\ resources[HandlerId].draft = HandlerDraftWith(args.transform.function)
        /\ resources[RuleId].draft
              = transform(args.transform.topicRule, ruleDefaults)
        /\ resources[PermissionId].draft
              = transform(args.transform.permission, permissionDefaults)

(* C10 amended: only the topic rule's draft passes through the caller's    *)
(* hook (transform.topicRule; the defaults unchanged without one); the     *)
(* handler's and the permission's drafts are the composite's defaults      *)
(* whatever hooks the transform map holds for them.                        *)
C10_TopicRuleTransformOnly ==
    Constructed =>
        /\ resources[HandlerId].draft = HandlerDraftWith("absent")
        /\ resources[HandlerId].draft.description.v
              = "Subscribed to rt on " \o FilterPattern
        /\ resources[HandlerId].draft.handler.v = args.subscriber.v.handler
        /\ resources[PermissionId].draft = permissionDefaults
        /\ resources[PermissionId].draft.action.v = "lambda:InvokeFunction"
        /\ resources[PermissionId].draft.principal.v = "iot.amazonaws.com"
        /\ args.transform.topicRule \in {"absent", "identity"} =>
              resources[RuleId].draft = ruleDefaults
        /\ args.transform.topicRule # "absent" =>
              LET candidate == ApplyHook(args.transform.topicRule, ruleDefaults)
              IN /\ DOMAIN resources[RuleId].draft = DOMAIN candidate
                 /\ \A f \in DOMAIN candidate :
                        resources[RuleId].draft[f] = candidate[f]

C10_Witness ==
    /\ Constructed
    /\ args.transform.permission = "overwriteAll"
    /\ args.transform.function = "overwriteAll"
    /\ args.transform.topicRule = "cosmetic"
    /\ resources[RuleId].draft.enabled.v = FALSE

====
